---- MODULE Spec2Model ----
(***************************************************************************)
(* Shake / reset behaviour of the three chess-physics components:          *)
(*   "sim"     src/chess-physics-sim.tsx  (2D, Matter.js)                   *)
(*   "basic3d" src/chess-physics-3d.tsx   (3D, board group shaken in render)*)
(*   "room"    src/unnamed/part_000       (room scene, shakeForce + timers) *)
(* One behaviour of the model is one session of one component; Init picks   *)
(* which component is mounted.                                              *)
(*                                                                          *)
(* Numbers.  Math.random() is a draw k / RandDen, k \in RandomDraws.        *)
(* (Math.random() - 0.5) is then (2k - RandDen) / (2 RandDen); every        *)
(* quantity that is a product of such a factor is stored as the integer     *)
(* numerator, the unit being written next to the operator that computes it. *)
(* The physics engines (Matter.js, cannon) are libraries outside the        *)
(* repository: their step is an abstract integrator that moves dynamic      *)
(* bodies only.                                                             *)
(***************************************************************************)
EXTENDS Integers, Sequences, FiniteSets, TLC

VARIABLES
    variant,         \* which component this session runs
    observed,        \* the bodies whose fields this behaviour follows
    lastOp,          \* the handler that ran last (history, for stating the claims)
    resetsInRow,     \* resets since the last other handler, counted up to 2 (history)
    isLoaded,        \* sim: useState isLoaded; room: ~isLoading
    engineRef,       \* sim: engineRef.current is set
    shakeIntensity,  \* useState shakeIntensity of the mounted component
    shakes,          \* shake commands since the last reset (history, capped by MaxShakes)
    simPieces,       \* sim: dynamic fields of the observed Matter piece bodies
    simSquares,      \* sim: position of the observed board squares (boardRef.current)
    simWalls,        \* sim: position of the 4 walls
    shakeMult,       \* sim: the local `intensity` of the last shakeBoard call
    simApplied,      \* sim: the force the last shakeBoard call passed to applyForce, per piece
    pendingShakes,   \* sim, room: shakes the physics engine has not integrated yet
    boardGroup,      \* basic3d: rotation.x, rotation.z and position.y of boardRef.current
    shakeForce,      \* room: useState shakeForce
    resetTrigger,    \* room: useState resetTrigger
    timers,          \* room: pending setTimeout(() => setShakeForce(0), 500) callbacks
    roomPieces,      \* room: the mounted ChessPiece bodies
    roomApplied,     \* room: the applyImpulse calls of the last commit, per piece
    mounted,         \* sim: the component is mounted (canvasRef.current is set)
    matterLoaded,    \* sim: the script's onload has run (window.Matter is defined)
    runnerRunning,   \* sim: the runner started by Engine.run(engine) is ticking
    renderRunning,   \* sim: the renderer started by Render.run(render) is running
    roomBoard,       \* room: position and rotation of the observed board body
    twin             \* the body fields in which a second execution of the last handler,
                     \* started in the same state by the same command, ends differently

simVars == <<isLoaded, engineRef, simPieces, simSquares, simWalls, shakeMult, simApplied,
             pendingShakes>>
roomVars == <<shakeForce, resetTrigger, timers, roomPieces, roomApplied>>
lifeVars == <<mounted, matterLoaded, runnerRunning, renderRunning>>
vars == <<variant, observed, lastOp, resetsInRow, shakeIntensity, shakes, simVars, boardGroup,
          roomVars, lifeVars, roomBoard, twin>>

----------------------------------------------------------------------------
(* Bounds *)
MaxShakes == 11          \* shake commands between two resets
MaxPendingShakes == 1    \* shake commands between two engine steps
MaxTimers == 2           \* room: timeouts pending at once
MaxResets == 2           \* room: resets in a session

(* Math.random(): k / RandDen for k in RandomDraws, always in [0, 1) *)
RandDen == 4
RandomDraws == {1, 3}

(* Program constants *)
MaxIntensity == 10
boardSize == 640
thickness == 20
squareSize == 80
pieceRadius == 25
BoardShakeThreshold == 5

Min(a, b) == IF a < b THEN a ELSE b
Max(a, b) == IF a > b THEN a ELSE b
Sgn(a) == IF a > 0 THEN 1 ELSE IF a < 0 THEN -1 ELSE 0

(* Lengths of the sim are stored in units of 1 / PosScale pixel, so that a  *)
(* square's random offset (Math.random() - 0.5) * (intensity - 5) * 2 is an *)
(* integer.                                                                 *)
PosScale == RandDen
Px(n) == n * PosScale

(* (Math.random() - 0.5), in units of 1 / (2 RandDen) *)
Centered(k) == 2 * k - RandDen

----------------------------------------------------------------------------
(* The fixed starting layout *)
initialBoard ==
    << <<"r", "n", "b", "q", "k", "b", "n", "r">>,
       <<"p", "p", "p", "p", "p", "p", "p", "p">>,
       <<".", ".", ".", ".", ".", ".", ".", ".">>,
       <<".", ".", ".", ".", ".", ".", ".", ".">>,
       <<".", ".", ".", ".", ".", ".", ".", ".">>,
       <<".", ".", ".", ".", ".", ".", ".", ".">>,
       <<"P", "P", "P", "P", "P", "P", "P", "P">>,
       <<"R", "N", "B", "Q", "K", "B", "N", "R">> >>

(* piece === piece.toUpperCase() *)
IsUpper(c) == c \in {"K", "Q", "R", "B", "N", "P"}

(* mutant: the row and column indices are swapped *)
CellAtTransposed(row, col) == initialBoard[col + 1][row + 1]

(* rows and columns are 0-based as in the source; tuples are 1-based *)
CellAt(row, col) == initialBoard[row + 1][col + 1]

(* createPieces: the row-major list of the bodies pushed to piecesRef *)
RECURSIVE PiecesFrom(_)
PiecesFrom(i) ==
    IF i >= 64 THEN << >>
    ELSE LET row == i \div 8
             col == i % 8
             piece == CellAt(row, col)
             x == col * squareSize + squareSize \div 2
             y == row * squareSize + squareSize \div 2
         IN  IF piece # "."
             THEN << [pieceType |-> piece, isWhite |-> IsUpper(piece),
                      originalX |-> Px(x), originalY |-> Px(y),
                      position |-> <<Px(x), Px(y)>>,
                      velocity |-> <<0, 0>>, angle |-> 0, angularVelocity |-> 0,
                      force |-> <<0, 0>>] >> \o PiecesFrom(i + 1)
             ELSE PiecesFrom(i + 1)
createPieces == PiecesFrom(0)

(* the loops that fill boardSquares: for row, for col, push the square's    *)
(* centre; the result is the list kept in boardRef.current                  *)
RECURSIVE SquaresFrom(_, _)
SquaresFrom(row, col) ==
    IF row >= 8 THEN << >>
    ELSE IF col >= 8 THEN SquaresFrom(row + 1, 0)
    ELSE << <<Px(col * squareSize + squareSize \div 2),
              Px(row * squareSize + squareSize \div 2)>> >> \o SquaresFrom(row, col + 1)
boardSquares == SquaresFrom(0, 0)

(* the creation position of boardRef.current[index] (0-based as in the source) *)
SquareOrigin(index) == boardSquares[index + 1]

(* the four walls: top, bottom, left, right *)
WallOrigin ==
    << <<Px(boardSize \div 2), Px(0 - thickness \div 2)>>,
       <<Px(boardSize \div 2), Px(boardSize + thickness \div 2)>>,
       <<Px(0 - thickness \div 2), Px(boardSize \div 2)>>,
       <<Px(boardSize + thickness \div 2), Px(boardSize \div 2)>> >>

(* half extents (x, y) of the four wall rectangles and of a board square *)
WallHalfExtent ==
    << <<Px(boardSize \div 2), Px(thickness \div 2)>>,
       <<Px(boardSize \div 2), Px(thickness \div 2)>>,
       <<Px(thickness \div 2), Px(boardSize \div 2)>>,
       <<Px(thickness \div 2), Px(boardSize \div 2)>> >>
SquareHalfExtent == <<Px(squareSize \div 2), Px(squareSize \div 2)>>

(* The handlers treat every body alike (forEach) and the abstract engine   *)
(* moves each piece by itself, so a behaviour follows the fields of one     *)
(* observed body: a piece (index into piecesRef.current, 1-based) or a      *)
(* board square (index into boardRef.current, 0-based).  Init picks it.     *)
ObservablePieces == {1, 29}
ObservableSquares == {0, 11, 63}
SimObservations ==
    {[pieces |-> {p}, squares |-> {}] : p \in ObservablePieces}
        \cup {[pieces |-> {}, squares |-> {q}] : q \in ObservableSquares}

NoBodies == [b \in {} |-> 0]

(* the fields in which the bodies `second` differ from the bodies `first` *)
DiffFields(first, second) ==
    UNION {{f \in DOMAIN first[i] : first[i][f] # second[i][f]} : i \in DOMAIN first}

(* a handler that draws nothing: a second execution ends in the same bodies *)
TwinAgrees == twin' = {}

(* history: handler `op` has just run *)
Did(op) ==
    /\ lastOp' = op
    /\ resetsInRow' = IF op = "reset" THEN Min(resetsInRow + 1, 2) ELSE 0

----------------------------------------------------------------------------
(* 2D sim: Matter.Body operations used by the handlers *)

(* mutant: Body.translate where Body.setPosition was meant *)
SetPositionTranslates(body, p) ==
    [body EXCEPT !.position = <<body.position[1] + p[1], body.position[2] + p[2]>>]

(* Body.setPosition, Body.setVelocity, Body.setAngularVelocity, Body.setAngle *)
SetPosition(body, p) == [body EXCEPT !.position = p]
SetVelocity(body, v) == [body EXCEPT !.velocity = v]
SetAngularVelocity(body, w) == [body EXCEPT !.angularVelocity = w]
SetAngle(body, a) == [body EXCEPT !.angle = a]

(* mutant: the force is written to the velocity, as Body.setVelocity would *)
ApplyForceSetsVelocity(body, f) ==
    [body EXCEPT !.velocity = <<Sgn(f[1]), Sgn(f[2])>>]

(* Body.applyForce(body, body.position, force): the offset from the centre *)
(* is zero, so only body.force grows and no torque is added.               *)
ApplyForce(body, f) ==
    [body EXCEPT !.force = <<body.force[1] + f[1], body.force[2] + f[2]>>]

(* Body.translate on a bare position *)
Translate(p, d) == <<p[1] + d[1], p[2] + d[2]>>

(* mutant: the clamp is forgotten *)
SimNextIntensityUnclamped(prev) == prev + 1

(* setShakeIntensity((prev) => Math.min(prev + 1, 10)) *)
SimNextIntensity(prev) == Min(prev + 1, MaxIntensity)

(* const intensity = shakeIntensity + 1, read from the render's closure *)
SimShakeMultiplier(rendered) == rendered + 1

(* (Math.random() - 0.5) * intensity * 0.01, in units of 0.01 / (2 RandDen) *)
SimPieceForce(k, intensity) == Centered(k) * intensity

(* (Math.random() - 0.5) * (intensity - 5) * 2 pixels, in units of 1 / PosScale pixel *)
SimSquareShake(k, intensity) == Centered(k) * (intensity - BoardShakeThreshold)

(* mutant: the comparison is the wrong way round *)
SimBoardShakesBelow(intensity) == intensity < BoardShakeThreshold

(* mutant: the board is shaken at every intensity *)
SimBoardShakesAlways(intensity) == intensity > 0

(* intensity > 5 && boardRef.current *)
SimBoardShakes(intensity) == intensity > BoardShakeThreshold

----------------------------------------------------------------------------
(* 2D sim: handlers *)

(* initializePhysics: if (!canvasRef.current || !window.Matter) return;     *)
(* then the engine, the renderer, the bodies, Engine.run and Render.run.    *)
(* It is called from onload, where window.Matter is defined; the canvas ref *)
(* is set while the component is mounted.                                   *)
initializePhysics ==
    IF ~mounted
    THEN UNCHANGED <<engineRef, simWalls, simSquares, simPieces, runnerRunning, renderRunning>>
    ELSE /\ engineRef' = TRUE
         /\ simWalls' = WallOrigin
         /\ simSquares' = [i \in observed.squares |-> SquareOrigin(i)]
         /\ simPieces' = [i \in observed.pieces |-> createPieces[i]]
         /\ runnerRunning' = TRUE
         /\ renderRunning' = TRUE

(* script.onload: setIsLoaded(true); initializePhysics().  The handler     *)
(* stays on the script element after an unmount; a state update of an       *)
(* unmounted component is dropped.                                          *)
SimOnLoad ==
    /\ variant = "sim"
    /\ ~matterLoaded
    /\ matterLoaded' = TRUE
    /\ isLoaded' = mounted
    /\ initializePhysics
    /\ Did("load")
    /\ UNCHANGED <<variant, observed, roomBoard, mounted, shakeIntensity, shakes, shakeMult, simApplied,
                   pendingShakes, boardGroup, roomVars>>
    /\ TwinAgrees

(* the cleanup of the effect: Render.stop(renderRef.current) and           *)
(* Engine.clear(engineRef.current), each if the ref is set.  Engine.clear   *)
(* empties the engine's pair and detector caches; the runner that           *)
(* Engine.run created is not held by the component and is not stopped.      *)
SimCleanup ==
    /\ renderRunning' = (IF engineRef THEN FALSE ELSE renderRunning)
    /\ UNCHANGED <<runnerRunning, engineRef, simPieces, simSquares, simWalls>>

SimUnmount ==
    /\ variant = "sim"
    /\ mounted
    /\ mounted' = FALSE
    /\ SimCleanup
    /\ Did("unmount")
    /\ UNCHANGED <<variant, observed, roomBoard, matterLoaded, isLoaded, shakeIntensity, shakes, shakeMult,
                   simApplied, pendingShakes, boardGroup, roomVars>>
    /\ TwinAgrees

(* mutant: the handlers run without the guard *)
SimCannotRunNever == FALSE

(* if (!engineRef.current || !window.Matter) return *)
SimCannotRun == ~engineRef \/ ~matterLoaded

(* shakeBoard of the sim *)
shakeBoard ==
    IF SimCannotRun
    THEN /\ UNCHANGED <<shakeIntensity, shakes, simPieces, simSquares, shakeMult, simApplied,
                        pendingShakes>>
         /\ twin' = {}
    ELSE LET intensity == SimShakeMultiplier(shakeIntensity) IN
         /\ shakeIntensity' = SimNextIntensity(shakeIntensity)
         /\ shakeMult' = intensity
         /\ \E draw \in [DOMAIN simPieces -> RandomDraws \X RandomDraws] :
                /\ simApplied' = [i \in DOMAIN simPieces |->
                                    <<SimPieceForce(draw[i][1], intensity),
                                      SimPieceForce(draw[i][2], intensity)>>]
                /\ simPieces' = [i \in DOMAIN simPieces |->
                                    ApplyForce(simPieces[i], simApplied'[i])]
         /\ IF SimBoardShakes(intensity)
            THEN \E draw \in [DOMAIN simSquares -> RandomDraws \X RandomDraws] :
                    simSquares' = [i \in DOMAIN simSquares |->
                                     Translate(simSquares[i],
                                               <<SimSquareShake(draw[i][1], intensity),
                                                 SimSquareShake(draw[i][2], intensity)>>)]
            ELSE UNCHANGED simSquares
         /\ twin' \in
              {DiffFields(simPieces',
                          [i \in DOMAIN simPieces |->
                             ApplyForce(simPieces[i],
                                        <<SimPieceForce(draw[i][1], intensity),
                                          SimPieceForce(draw[i][2], intensity)>>)])
                 \cup (IF SimBoardShakes(intensity)
                          /\ simSquares' # [i \in DOMAIN simSquares |->
                                             Translate(simSquares[i],
                                                       <<SimSquareShake(shake[i][1], intensity),
                                                         SimSquareShake(shake[i][2], intensity)>>)]
                       THEN {"square"} ELSE {}) :
                 draw \in [DOMAIN simPieces -> RandomDraws \X RandomDraws],
                 shake \in [DOMAIN simSquares -> RandomDraws \X RandomDraws]}
         /\ shakes' = shakes + 1
         /\ pendingShakes' = pendingShakes + 1

(* both buttons of the 2D sim: disabled={!isLoaded}; an unmounted           *)
(* component has no buttons                                                 *)
SimButtonsEnabled == mounted /\ isLoaded

SimClickShake ==
    /\ variant = "sim"
    /\ SimButtonsEnabled
    /\ shakes < MaxShakes
    /\ pendingShakes < MaxPendingShakes
    /\ shakeBoard
    /\ Did("shake")
    /\ UNCHANGED <<variant, observed, roomBoard, lifeVars, isLoaded, engineRef, simWalls, boardGroup, roomVars>>

(* mutant: Body.setVelocity is forgotten *)
ResetPieceKeepsVelocity(piece) ==
    SetAngle(SetAngularVelocity(
        SetPosition(piece, <<piece.originalX, piece.originalY>>), 0), 0)

(* the piece part of resetBoard *)
ResetPiece(piece) ==
    SetAngle(SetAngularVelocity(SetVelocity(
        SetPosition(piece, <<piece.originalX, piece.originalY>>), <<0, 0>>), 0), 0)

(* mutant: row and col are computed the other way round *)
ResetSquareTransposed(p, index) ==
    LET row == index % 8
        col == index \div 8
        originalX == col * squareSize + squareSize \div 2
        originalY == row * squareSize + squareSize \div 2
    IN  <<Px(originalX), Px(originalY)>>

(* the square part of resetBoard: Body.setPosition(square, origin of index) *)
ResetSquare(p, index) ==
    LET row == index \div 8
        col == index % 8
        originalX == col * squareSize + squareSize \div 2
        originalY == row * squareSize + squareSize \div 2
    IN  <<Px(originalX), Px(originalY)>>

resetBoard ==
    IF SimCannotRun
    THEN UNCHANGED <<shakeIntensity, shakes, simPieces, simSquares, shakeMult, simApplied,
                     pendingShakes>>
    ELSE /\ shakeIntensity' = 0
         /\ simPieces' = [i \in DOMAIN simPieces |-> ResetPiece(simPieces[i])]
         /\ simSquares' = [i \in DOMAIN simSquares |-> ResetSquare(simSquares[i], i)]
         /\ shakes' = 0
         /\ simApplied' = NoBodies
         /\ UNCHANGED <<shakeMult, pendingShakes>>

SimClickReset ==
    /\ variant = "sim"
    /\ SimButtonsEnabled
    /\ resetBoard
    /\ Did("reset")
    /\ UNCHANGED <<variant, observed, roomBoard, lifeVars, isLoaded, engineRef, simWalls, boardGroup, roomVars>>
    /\ TwinAgrees

(* shakeBoard and resetBoard invoked while the buttons are still disabled,  *)
(* that is before onload has created the engine                            *)
SimCallShake ==
    /\ variant = "sim"
    /\ mounted
    /\ ~isLoaded
    /\ shakeBoard
    /\ Did("shake")
    /\ UNCHANGED <<variant, observed, roomBoard, lifeVars, isLoaded, engineRef, simWalls, boardGroup, roomVars>>

SimCallReset ==
    /\ variant = "sim"
    /\ mounted
    /\ ~isLoaded
    /\ resetBoard
    /\ Did("reset")
    /\ UNCHANGED <<variant, observed, roomBoard, lifeVars, isLoaded, engineRef, simWalls, boardGroup, roomVars>>
    /\ TwinAgrees

----------------------------------------------------------------------------
(* 2D sim: one tick of the runner started by Engine.run(engine).  Matter   *)
(* integrates the dynamic bodies and clears their forces; static bodies    *)
(* are skipped.  Velocities are directions (-1, 0, 1 per axis); a moving    *)
(* piece travels StepLen per tick and stops at a wall; a piece that reaches *)
(* a wall while moving along it starts to spin; angles count quarter turns. *)
ClampUnit(a) == Max(-1, Min(1, a))
StepLen == Px(boardSize)
WallLo == Px(pieceRadius)
WallHi == Px(boardSize - pieceRadius)
GravityY == 1

StepPiece(b) ==
    LET x == b.position[1] + b.velocity[1] * StepLen
        y == b.position[2] + b.velocity[2] * StepLen
        hitX == x < WallLo \/ x > WallHi
        hitY == y < WallLo \/ y > WallHi
        vx == IF hitX THEN 0 ELSE ClampUnit(b.velocity[1] + Sgn(b.force[1]))
        vy == IF hitY THEN 0 ELSE ClampUnit(b.velocity[2] + Sgn(b.force[2]) + GravityY)
        w == IF hitY /\ vx # 0 THEN vx ELSE b.angularVelocity
    IN  [b EXCEPT !.position = <<Max(WallLo, Min(WallHi, x)), Max(WallLo, Min(WallHi, y))>>,
                  !.velocity = <<vx, vy>>,
                  !.angularVelocity = w,
                  !.angle = (b.angle + w) % 4,
                  !.force = <<0, 0>>]

SimEngineStep ==
    /\ variant = "sim"
    /\ runnerRunning
    /\ simPieces' = [i \in DOMAIN simPieces |-> StepPiece(simPieces[i])]
    /\ pendingShakes' = 0
    /\ simApplied' = NoBodies
    /\ Did("step")
    /\ UNCHANGED <<variant, observed, roomBoard, lifeVars, isLoaded, engineRef, shakeIntensity, shakes, simSquares,
                   simWalls, shakeMult, boardGroup, roomVars>>
    /\ TwinAgrees

----------------------------------------------------------------------------
(* basic3d: Component / ChessBoard of chess-physics-3d.tsx *)

(* Math.sin(Date.now() * 0.01): the clock is not under the program's      *)
(* control, the sine is one of these samples                               *)
SinSamples == {-1, 0, 1}

(* mutant: the intensity grows by 2 per shake *)
Basic3dNextIntensityByTwo(prev) == Min(prev + 2, MaxIntensity)

(* setShakeIntensity((prev) => Math.min(prev + 1, 10)) *)
Basic3dNextIntensity(prev) == Min(prev + 1, MaxIntensity)

(* applyShake, with intensity = shakeIntensity * 0.1:                      *)
(*   rotation.x, rotation.z = (Math.random() - 0.5) * intensity * 0.2,     *)
(*                            in units of 0.02 / (2 RandDen)               *)
(*   position.y = Math.sin(Date.now() * 0.01) * intensity * 0.5,           *)
(*                            in units of 0.05                             *)
applyShake(group, rendered, kx, kz, sine) ==
    [rotX |-> Centered(kx) * rendered, rotZ |-> Centered(kz) * rendered, posY |-> sine * rendered]

(* the render of ChessBoard: if (shakeIntensity > 0) applyShake().  It    *)
(* runs when the state changed; setting an equal state renders nothing.    *)
Basic3dRender(prev, rendered) ==
    IF rendered # prev /\ rendered > 0
    THEN \E kx \in RandomDraws, kz \in RandomDraws, sine \in SinSamples :
            boardGroup' = applyShake(boardGroup, rendered, kx, kz, sine)
    ELSE UNCHANGED boardGroup

Basic3dClickShake ==
    /\ variant = "basic3d"
    /\ shakeIntensity' = Basic3dNextIntensity(shakeIntensity)
    /\ Basic3dRender(shakeIntensity, shakeIntensity')
    /\ Did("shake")
    /\ UNCHANGED <<variant, observed, roomBoard, lifeVars, shakes, simVars, roomVars>>
    /\ TwinAgrees

(* resetBoard: setShakeIntensity(0) and nothing else *)
Basic3dClickReset ==
    /\ variant = "basic3d"
    /\ shakeIntensity' = 0
    /\ Basic3dRender(shakeIntensity, shakeIntensity')
    /\ Did("reset")
    /\ UNCHANGED <<variant, observed, roomBoard, lifeVars, shakes, simVars, roomVars>>
    /\ TwinAgrees

----------------------------------------------------------------------------
(* room: Component / ChessScene / ChessPiece of the room scene *)
(* getPieceHeight, in units of 0.005 *)
getPieceHeight(piece) ==
    LET p == CASE piece \in {"p", "P"} -> "p" [] piece \in {"r", "R"} -> "r"
               [] piece \in {"n", "N"} -> "n" [] piece \in {"b", "B"} -> "b"
               [] piece \in {"q", "Q"} -> "q" [] piece \in {"k", "K"} -> "k"
               [] OTHER -> piece
    IN  IF p = "p" THEN 60
        ELSE IF p = "r" THEN 80
        ELSE IF p = "n" \/ p = "b" THEN 90
        ELSE IF p = "q" THEN 100
        ELSE IF p = "k" THEN 110
        ELSE 80

(* the effect of ChessScene: the list handed to setPieces.  x and z are in *)
(* units of 0.25 ((colIndex - 3.5) * 0.5), y in units of 0.005             *)
(* (boardSurface -0.7, plus half the height, plus 0.01).                   *)
RECURSIVE RoomPiecesFrom(_)
RoomPiecesFrom(i) ==
    IF i >= 64 THEN << >>
    ELSE LET rowIndex == i \div 8
             colIndex == i % 8
             piece == CellAt(rowIndex, colIndex)
             x == 2 * colIndex - 7
             z == 2 * rowIndex - 7
             pieceY == -140 + getPieceHeight(piece) \div 2 + 2
         IN  IF piece # "."
             THEN << [id |-> <<rowIndex, colIndex>>, piece |-> piece,
                      isWhite |-> IsUpper(piece),
                      position |-> <<x, pieceY, z>>] >> \o RoomPiecesFrom(i + 1)
             ELSE RoomPiecesFrom(i + 1)
newPieces == RoomPiecesFrom(0)

(* mutant: the key does not change with resetTrigger, the mounted body stays *)
MountPieceReusesBody(i, trigger) ==
    IF i \in DOMAIN roomPieces
    THEN roomPieces[i]
    ELSE [key |-> <<newPieces[i].id, 0>>,
          position |-> newPieces[i].position,
          velocity |-> <<0, 0, 0>>]

(* a ChessPiece mounting under key `${id}-${resetTrigger}`: useCylinder    *)
(* creates a body at the position prop, at rest                            *)
MountPiece(i, trigger) ==
    [key |-> <<newPieces[i].id, trigger>>,
     position |-> newPieces[i].position,
     velocity |-> <<0, 0, 0>>]

(* mutant: forceY is centred like forceX and forceZ *)
PieceImpulseCenteredY(kx, ky, kz, force) ==
    <<Centered(kx) * force, Centered(ky) * force, Centered(kz) * force>>

(* the impulse of the ChessPiece effect:                                   *)
(*   forceX, forceZ = (Math.random() - 0.5) * shakeForce * 0.4,            *)
(*                    in units of 0.4 / (2 RandDen)                        *)
(*   forceY = Math.random() * shakeForce * 0.15, in units of 0.15 / RandDen *)
PieceImpulse(kx, ky, kz, force) == <<Centered(kx) * force, ky * force, Centered(kz) * force>>

(* api.applyImpulse(impulse, [0, 0, 0]) on a body of mass 1.0 *)
ApplyImpulse(body, impulse) ==
    [body EXCEPT !.velocity = <<body.velocity[1] + impulse[1],
                               body.velocity[2] + impulse[2],
                               body.velocity[3] + impulse[3]>>]

(* mutant: the guard of the effect lets a zero force through *)
EffectAppliesAlways(force) == force >= 0

(* useEffect(..., [shakeForce, api]) body: if (shakeForce > 0) applyImpulse *)
EffectApplies(force) == force > 0

(* the effect runs after the commit in which the piece mounted or in which *)
(* its shakeForce prop differs from the previous commit's                  *)
EffectRuns(mounting, prevForce, force) == mounting \/ force # prevForce

(* the commit that follows a handler: every mounted piece runs its effect  *)
(* when due; `remount` is TRUE when the keys changed                       *)
RoomCommit(remount, trigger, prevForce, force) ==
    LET body(i) == IF remount THEN MountPiece(i, trigger) ELSE roomPieces[i]
        due == EffectRuns(remount, prevForce, force) /\ EffectApplies(force)
        Draws == IF due
                 THEN [DOMAIN roomPieces -> RandomDraws \X RandomDraws \X RandomDraws]
                 ELSE {[i \in DOMAIN roomPieces |-> <<1, 1, 1>>]}
        impulse(draw, i) == PieceImpulse(draw[i][1], draw[i][2], draw[i][3], force)
        after(draw) == [i \in DOMAIN roomPieces |->
                          IF due THEN ApplyImpulse(body(i), impulse(draw, i)) ELSE body(i)]
    IN  \E draw \in Draws :
            /\ roomPieces' = after(draw)
            /\ roomApplied' = [i \in DOMAIN roomPieces |->
                                IF due THEN <<impulse(draw, i)>> ELSE << >>]
            /\ twin' \in {DiffFields(after(draw), after(again)) : again \in Draws}

(* the 2000 ms loading timer: setIsLoading(false); the Canvas mounts,     *)
(* ChessScene's effect fills `pieces`, the ChessPieces mount               *)
RoomLoadingDone ==
    /\ variant = "room"
    /\ ~isLoaded
    /\ isLoaded' = TRUE
    /\ roomPieces' = [i \in observed.pieces |-> MountPiece(i, resetTrigger)]
    /\ roomApplied' = [i \in observed.pieces |-> << >>]
    /\ Did("load")
    /\ UNCHANGED <<variant, observed, roomBoard, lifeVars, shakeIntensity, shakes, engineRef, simPieces, simSquares,
                   simWalls, shakeMult, simApplied, pendingShakes, boardGroup, shakeForce,
                   resetTrigger, timers>>
    /\ TwinAgrees

(* const newIntensity = Math.min(shakeIntensity + 1, 10) *)
RoomNewIntensity(rendered) == Min(rendered + 1, MaxIntensity)

(* mutant: the force is taken from the unclamped sum *)
RoomShakeForceUnclamped(newIntensity) == shakeIntensity + 1

(* setShakeForce(newIntensity) *)
RoomShakeForce(newIntensity) == newIntensity

(* mutant: the timeout callback leaves the force as it is *)
RoomTimerForceKeeps(prev) == prev

(* setTimeout(() => { setShakeForce(0) }, 500) *)
RoomTimerForce(prev) == 0

(* mutant: resetBoard forgets setShakeForce(0) *)
RoomResetForceKeeps(prev) == prev

(* resetBoard: setShakeForce(0) *)
RoomResetForce(prev) == 0

(* mutant: the room scene renders its buttons while it is loading *)
RoomButtonsExistAlways == TRUE

(* if (isLoading) return <LoadingScreen />: the Canvas and the buttons are  *)
(* rendered only once isLoading is false                                    *)
RoomButtonsExist == isLoaded

(* shakeBoard of the room scene *)
RoomClickShake ==
    /\ variant = "room"
    /\ RoomButtonsExist
    /\ timers < MaxTimers
    /\ pendingShakes < MaxPendingShakes
    /\ LET newIntensity == RoomNewIntensity(shakeIntensity) IN
         /\ shakeIntensity' = newIntensity
         /\ shakeForce' = RoomShakeForce(newIntensity)
         /\ timers' = timers + 1
         /\ RoomCommit(FALSE, resetTrigger, shakeForce, shakeForce')
    /\ pendingShakes' = pendingShakes + 1
    /\ Did("shake")
    /\ UNCHANGED <<variant, observed, roomBoard, lifeVars, shakes, isLoaded, engineRef, simPieces, simSquares,
                   simWalls, shakeMult, simApplied, boardGroup, resetTrigger>>

(* the timeout callback: setShakeForce(0) *)
RoomTimerFires ==
    /\ variant = "room"
    /\ timers > 0
    /\ timers' = timers - 1
    /\ shakeForce' = RoomTimerForce(shakeForce)
    /\ RoomCommit(FALSE, resetTrigger, shakeForce, shakeForce')
    /\ Did("timer")
    /\ UNCHANGED <<variant, observed, roomBoard, lifeVars, shakeIntensity, shakes, simVars, boardGroup, resetTrigger>>

(* resetBoard of the room scene *)
RoomClickReset ==
    /\ variant = "room"
    /\ RoomButtonsExist
    /\ resetTrigger < MaxResets
    /\ shakeIntensity' = 0
    /\ shakeForce' = RoomResetForce(shakeForce)
    /\ resetTrigger' = resetTrigger + 1
    /\ RoomCommit(TRUE, resetTrigger', shakeForce, shakeForce')
    /\ pendingShakes' = 0
    /\ Did("reset")
    /\ UNCHANGED <<variant, observed, roomBoard, lifeVars, shakes, isLoaded, engineRef, simPieces, simSquares,
                   simWalls, shakeMult, simApplied, boardGroup, timers>>

(* one step of the cannon world of <Physics>: a piece with a horizontal   *)
(* velocity slides to the edge of the board on that side and comes to rest *)
BoardEdge == 8
RoomStepPiece(b) ==
    LET slide(x, v) == IF v > 0 THEN BoardEdge ELSE IF v < 0 THEN 0 - BoardEdge ELSE x
    IN  [b EXCEPT !.position = <<slide(b.position[1], b.velocity[1]), b.position[2],
                                slide(b.position[3], b.velocity[3])>>,
                  !.velocity = <<0, 0, 0>>]

RoomPhysicsStep ==
    /\ variant = "room"
    /\ isLoaded
    /\ roomPieces' = [i \in DOMAIN roomPieces |-> RoomStepPiece(roomPieces[i])]
    /\ roomApplied' = [i \in DOMAIN roomPieces |-> << >>]
    /\ pendingShakes' = 0
    /\ Did("step")
    /\ UNCHANGED <<variant, observed, roomBoard, lifeVars, shakeIntensity, shakes, isLoaded, engineRef, simPieces,
                   simSquares, simWalls, shakeMult, simApplied, boardGroup, shakeForce,
                   resetTrigger, timers>>
    /\ TwinAgrees

----------------------------------------------------------------------------
(* Room scene: SolidChessBoard.  Heights are in units of 0.0012              *)
(* (0.5 * 0.008 * 0.3), angles in units of 0.004 (0.008 * 0.5).              *)

(* const safeYPosition = -0.75 *)
safeYPosition == 0 - 625

(* useBox: position [0, safeYPosition, 0], no rotation given *)
BoardRestPose == [position |-> <<0, safeYPosition, 0>>, rotation |-> <<0, 0, 0>>]

(* Date.now() of a frame, as the values of Math.sin(time * 3),              *)
(* Math.cos(time * 2.5) and Math.sin(time * 6) it gives                     *)
FrameSamples == {<<0, 1, 0>>, <<1, 0, -1>>, <<-1, -1, 1>>}

(* mutant: the jump is the bare sine, without the * 0.5 + 0.5 *)
JumpHeightCentered(sine, force) == 2 * sine * force

(* (Math.sin(time * 6) * 0.5 + 0.5) * intensity * 0.3 *)
JumpHeight(sine, force) == (sine + 1) * force

(* the body of the useFrame callback: the pose it sets through boardApi *)
BoardPose(force, sample) ==
    IF force > 0
    THEN [position |-> <<0, safeYPosition + JumpHeight(sample[3], force), 0>>,
          rotation |-> <<sample[1] * force, 0, sample[2] * force>>]
    ELSE BoardRestPose

(* the behaviour follows the board when it follows no piece *)
ObservesBoard == variant = "room" /\ observed.pieces = {}

(* one frame of the Canvas: the useFrame callback of SolidChessBoard runs   *)
(* with the shakeForce of the latest render                                 *)
RoomFrame ==
    /\ ObservesBoard
    /\ isLoaded
    /\ \E sample \in FrameSamples :
          /\ roomBoard' = BoardPose(shakeForce, sample)
          /\ twin' \in {IF BoardPose(shakeForce, again) # roomBoard' THEN {"board"} ELSE {} :
                          again \in FrameSamples}
    /\ Did("frame")
    /\ UNCHANGED <<variant, observed, lifeVars, shakeIntensity, shakes, simVars, boardGroup, roomVars>>

----------------------------------------------------------------------------
Variants == {"sim", "basic3d", "room"}

Observations(v) ==
    IF v = "sim" THEN SimObservations
    ELSE IF v = "room" THEN {[pieces |-> {p}, squares |-> {}] : p \in ObservablePieces}
                                \cup {[pieces |-> {}, squares |-> {}]}
    ELSE {[pieces |-> {}, squares |-> {}]}

Init ==
    /\ variant \in Variants
    /\ observed \in Observations(variant)
    /\ lastOp = "init"
    /\ resetsInRow = 0
    /\ isLoaded = FALSE
    /\ engineRef = FALSE
    /\ shakeIntensity = 0
    /\ shakes = 0
    /\ simPieces = NoBodies
    /\ simSquares = NoBodies
    /\ simWalls = NoBodies
    /\ shakeMult = 0
    /\ simApplied = NoBodies
    /\ pendingShakes = 0
    /\ boardGroup = [rotX |-> 0, rotZ |-> 0, posY |-> 0]
    /\ shakeForce = 0
    /\ resetTrigger = 0
    /\ timers = 0
    /\ roomPieces = NoBodies
    /\ roomApplied = NoBodies
    /\ mounted = TRUE
    /\ matterLoaded = FALSE
    /\ runnerRunning = FALSE
    /\ renderRunning = FALSE
    /\ twin = {}
    /\ roomBoard = BoardRestPose

Next ==
    \/ SimOnLoad
    \/ SimUnmount
    \/ SimClickShake
    \/ SimClickReset
    \/ SimEngineStep
    \/ Basic3dClickShake
    \/ Basic3dClickReset
    \/ RoomLoadingDone
    \/ RoomClickShake
    \/ RoomTimerFires
    \/ RoomClickReset
    \/ RoomPhysicsStep
    \/ RoomFrame

Spec == Init /\ [][Next]_vars

(* the program with its handlers also callable before the engine exists *)
CallNext ==
    \/ Next
    \/ SimCallShake
    \/ SimCallReset

CallSpec == Init /\ [][CallNext]_vars

(* the room scene by itself, following the board; a timeout set by         *)
(* setTimeout does fire                                                     *)
RoomInit == Init /\ ObservesBoard

RoomNext ==
    \/ RoomLoadingDone
    \/ RoomClickShake
    \/ RoomTimerFires
    \/ RoomClickReset
    \/ RoomPhysicsStep
    \/ RoomFrame

RoomFairSpec == RoomInit /\ [][RoomNext]_vars /\ WF_vars(RoomTimerFires)

----------------------------------------------------------------------------
(* Claims *)

(* C1: in every variant, after any sequence of shake and reset commands   *)
(* the cumulative shake intensity is an integer in 0..10.                  *)
IntensityInRange == shakeIntensity \in 0..MaxIntensity

(* C1 witness: the sim has been shaken more than 10 times in a row *)
IntensityAtCap ==
    /\ variant = "sim"
    /\ lastOp = "shake"
    /\ shakes > MaxIntensity
    /\ shakeIntensity = MaxIntensity

(* C2: in the sim, once the engine is initialised, right after resetBoard *)
(* every piece is at its recorded origin (its creation position) with      *)
(* velocity (0, 0), angular velocity 0 and angle 0, and the intensity is 0. *)
SimResetRestoresPieces ==
    (variant = "sim" /\ engineRef /\ lastOp = "reset") =>
        /\ shakeIntensity = 0
        /\ \A i \in DOMAIN simPieces :
              /\ simPieces[i].originalX = createPieces[i].position[1]
              /\ simPieces[i].originalY = createPieces[i].position[2]
              /\ simPieces[i].position = <<simPieces[i].originalX, simPieces[i].originalY>>
              /\ simPieces[i].velocity = <<0, 0>>
              /\ simPieces[i].angularVelocity = 0
              /\ simPieces[i].angle = 0

(* C2 witness: a reset of an observed piece after the 11th shake and an   *)
(* engine step that integrated it                                          *)
SimResetAfterShakesAndSteps ==
    /\ variant = "sim"
    /\ lastOp = "reset"
    /\ resetsInRow = 1
    /\ DOMAIN simPieces # {}
    /\ shakeMult > MaxIntensity
    /\ pendingShakes = 0

(* C3: a reset that directly follows a reset changes no body transform,   *)
(* no velocity and not the intensity.                                      *)
ResetIdempotent ==
    [][(lastOp = "reset" /\ lastOp' = "reset") =>
          /\ shakeIntensity' = shakeIntensity
          /\ simPieces' = simPieces
          /\ simSquares' = simSquares
          /\ simWalls' = simWalls
          /\ boardGroup' = boardGroup
          /\ shakeForce' = shakeForce
          /\ \A i \in DOMAIN roomPieces :
                /\ roomPieces'[i].position = roomPieces[i].position
                /\ roomPieces'[i].velocity = roomPieces[i].velocity]_vars

(* C3 witness: the sim was reset twice in a row after a shake *)
SimResetTwice ==
    /\ variant = "sim"
    /\ resetsInRow = 2
    /\ DOMAIN simPieces # {}
    /\ shakeMult > 0

(* C4 as stated: in the sim every static body (wall, board square) keeps  *)
(* the position it was created with across engine steps and shakes.        *)
StaticBodiesNeverMove ==
    (variant = "sim" /\ engineRef) =>
        /\ simWalls = WallOrigin
        /\ \A i \in DOMAIN simSquares : simSquares[i] = SquareOrigin(i)

(* C4 amended: the walls never move; no engine step moves a board square, *)
(* and no shake whose multiplier is at most 5 does (a shake with a larger  *)
(* multiplier translates the squares).                                     *)
StaticBodiesMoveOnlyByStrongShake ==
    /\ []((variant = "sim" /\ engineRef) => simWalls = WallOrigin)
    /\ [][(/\ variant = "sim"
           /\ engineRef
           /\ \/ lastOp' = "step"
              \/ lastOp' = "shake" /\ shakeMult' <= BoardShakeThreshold)
              => simSquares' = simSquares]_vars

(* C4 witness: the 5th shake in a row has just run on an observed square *)
SimWeakShakeOnSquare ==
    /\ variant = "sim"
    /\ lastOp = "shake"
    /\ DOMAIN simSquares # {}
    /\ shakeMult = BoardShakeThreshold

(* C5 as stated: in the room scene every click of the shake button makes  *)
(* each mounted ChessPiece call applyImpulse exactly once.                 *)
EveryShakeDeliversOneImpulse ==
    (variant = "room" /\ lastOp = "shake") =>
        \A i \in DOMAIN roomPieces : Len(roomApplied[i]) = 1

(* C6 as stated: in the sim the multiplier of a shake's forces equals the *)
(* clamped cumulative intensity after that shake, min(previous + 1, 10).   *)
ShakeMultiplierIsClamped ==
    (variant = "sim" /\ lastOp = "shake") =>
        /\ shakeMult = shakeIntensity
        /\ shakeMult <= MaxIntensity

(* a component (Math.random() - 0.5) * m, in units of 1 / (2 RandDen),    *)
(* lies in the symmetric range [-m / 2, m / 2)                              *)
InSymmetricRange(c, m) == 0 - RandDen * m <= c /\ c < RandDen * m

(* C7 as stated: every impulse of a shake has its horizontal components   *)
(* in a symmetric range proportional to the intensity and a non-negative   *)
(* y component, in the sim and in the room scene.                          *)
ImpulseVerticalNonNegative ==
    /\ variant = "sim" =>
          \A i \in DOMAIN simApplied :
              /\ InSymmetricRange(simApplied[i][1], shakeMult)
              /\ simApplied[i][2] >= 0
    /\ variant = "room" =>
          \A i \in DOMAIN roomApplied : \A j \in 1..Len(roomApplied[i]) :
              /\ InSymmetricRange(roomApplied[i][j][1], shakeForce)
              /\ InSymmetricRange(roomApplied[i][j][3], shakeForce)
              /\ roomApplied[i][j][2] >= 0

(* C7 amended: in the room scene forceX and forceZ lie in the symmetric   *)
(* range and forceY in [0, 0.15 shakeForce); in the sim forceX and forceY  *)
(* both lie in the symmetric range of the multiplier the shake used, so    *)
(* forceY can be negative.                                                 *)
ImpulseRanges ==
    /\ variant = "sim" =>
          \A i \in DOMAIN simApplied :
              /\ InSymmetricRange(simApplied[i][1], shakeMult)
              /\ InSymmetricRange(simApplied[i][2], shakeMult)
    /\ variant = "room" =>
          \A i \in DOMAIN roomApplied : \A j \in 1..Len(roomApplied[i]) :
              /\ InSymmetricRange(roomApplied[i][j][1], shakeForce)
              /\ InSymmetricRange(roomApplied[i][j][3], shakeForce)
              /\ 0 <= roomApplied[i][j][2]
              /\ roomApplied[i][j][2] < RandDen * shakeForce

(* C7 witness: a room shake has just given a piece an impulse that goes   *)
(* up and towards negative x                                               *)
RoomImpulseApplied ==
    /\ variant = "room"
    /\ lastOp = "shake"
    /\ \E i \in DOMAIN roomApplied :
          /\ Len(roomApplied[i]) = 1
          /\ roomApplied[i][1][2] > 0
          /\ roomApplied[i][1][1] < 0

(* C8: with shakeForce = 0 no ChessPiece calls applyImpulse, the commit   *)
(* that brings shakeForce back to 0 leaves every body as it was, and a     *)
(* force or impulse scaled by intensity 0 is zero.                         *)
ZeroForceAppliesNothing ==
    /\ []((variant = "room" /\ shakeForce = 0) =>
             \A i \in DOMAIN roomApplied : roomApplied[i] = << >>)
    /\ [][(variant = "room" /\ lastOp' = "timer") => roomPieces' = roomPieces]_vars
    /\ [](\A k \in RandomDraws :
             /\ SimPieceForce(k, 0) = 0
             /\ PieceImpulse(k, k, k, 0) = <<0, 0, 0>>)

(* C8 witness: the only shake's timer has fired on a piece that had slid  *)
(* and come to rest: its effect ran with shakeForce = 0                    *)
RoomForceBackToZero ==
    /\ variant = "room"
    /\ lastOp = "timer"
    /\ shakeForce = 0
    /\ shakeIntensity = 1
    /\ resetTrigger = 0
    /\ timers = 0
    /\ \E i \in DOMAIN roomPieces :
          /\ roomPieces[i].velocity = <<0, 0, 0>>
          /\ roomPieces[i].position # newPieces[i].position

(* C9: in the room scene, right after resetBoard the intensity and        *)
(* shakeForce are 0 and every piece body is a new one (its key carries the *)
(* incremented resetTrigger and differs from the key before), at its       *)
(* starting position with zero velocity.                                   *)
RoomResetRemountsPieces ==
    /\ []((variant = "room" /\ lastOp = "reset") =>
             /\ shakeIntensity = 0
             /\ shakeForce = 0
             /\ resetTrigger > 0
             /\ \A i \in DOMAIN roomPieces :
                   /\ roomPieces[i].key = <<newPieces[i].id, resetTrigger>>
                   /\ roomPieces[i].position = newPieces[i].position
                   /\ roomPieces[i].velocity = <<0, 0, 0>>)
    /\ [][(variant = "room" /\ lastOp' = "reset") =>
             /\ resetTrigger' = resetTrigger + 1
             /\ \A i \in DOMAIN roomPieces : roomPieces'[i].key # roomPieces[i].key]_vars

(* C9 witness: the first reset, while a shake's timer is still pending *)
RoomResetAfterShake ==
    /\ variant = "room"
    /\ lastOp = "reset"
    /\ resetTrigger = 1
    /\ timers > 0
    /\ DOMAIN roomPieces # {}

(* C10 as stated: in basic3d, after resetBoard the board group's rotation *)
(* (x, z) and y position are back at 0 and the intensity is 0.             *)
Basic3dResetRestoresBoard ==
    (variant = "basic3d" /\ lastOp = "reset") =>
        /\ shakeIntensity = 0
        /\ boardGroup = [rotX |-> 0, rotZ |-> 0, posY |-> 0]

----------------------------------------------------------------------------
(* C11: in the 2D sim a shakeBoard or resetBoard call made while the engine  *)
(* does not exist (engineRef unset or Matter not loaded) leaves the          *)
(* intensity, every piece and every board square exactly as they were.       *)
FailedCommandIsNoOp ==
    [][(/\ variant = "sim"
        /\ ~engineRef \/ ~matterLoaded
        /\ lastOp' \in {"shake", "reset"})
       => UNCHANGED <<shakeIntensity, simPieces, simSquares, shakeMult, simApplied>>]_vars

(* a handler has been called before the engine existed *)
SimCalledBeforeEngine ==
    /\ variant = "sim"
    /\ ~engineRef
    /\ ~matterLoaded
    /\ lastOp = "shake"
    /\ shakeIntensity = 0

----------------------------------------------------------------------------
(* C12: piece creation yields exactly 32 bodies, one per non-'.' cell of     *)
(* the layout, each centred on its own distinct square of the 8x8 grid, in   *)
(* rows 0, 1, 6 and 7 only, white exactly when its code is uppercase, with   *)
(* its recorded origin equal to its creation position; the pieces of a new   *)
(* session and of every reset are at these positions.                        *)
OccupiedCells ==
    {cell \in (0..7) \X (0..7) : initialBoard[cell[1] + 1][cell[2] + 1] # "."}

SimPieceOnCell(b, cell) ==
    /\ b.pieceType = initialBoard[cell[1] + 1][cell[2] + 1]
    /\ b.position = <<Px(cell[2] * squareSize + squareSize \div 2),
                      Px(cell[1] * squareSize + squareSize \div 2)>>
    /\ <<b.originalX, b.originalY>> = b.position
    /\ b.isWhite = (b.pieceType \in {"K", "Q", "R", "B", "N", "P"})
    /\ b.velocity = <<0, 0>>

RoomPieceOnCell(b, cell) ==
    /\ b.piece = initialBoard[cell[1] + 1][cell[2] + 1]
    /\ b.id = cell
    /\ <<b.position[1], b.position[3]>> = <<2 * cell[2] - 7, 2 * cell[1] - 7>>
    /\ b.isWhite = (b.piece \in {"K", "Q", "R", "B", "N", "P"})

StartingLayout ==
    /\ Cardinality(OccupiedCells) = 32
    /\ OccupiedCells = {0, 1, 6, 7} \X (0..7)
    /\ Len(createPieces) = 32
    /\ Len(newPieces) = 32
    /\ \A i \in 1..Len(createPieces) :
          \E cell \in OccupiedCells : SimPieceOnCell(createPieces[i], cell)
    /\ \A i \in 1..Len(newPieces) :
          \E cell \in OccupiedCells : RoomPieceOnCell(newPieces[i], cell)
    /\ \A i, j \in 1..Len(createPieces) :
          i # j => createPieces[i].position # createPieces[j].position
    /\ \A i, j \in 1..Len(newPieces) :
          i # j => newPieces[i].id # newPieces[j].id

PieceCreationLayout ==
    /\ StartingLayout
    /\ (variant = "sim" /\ lastOp \in {"load", "reset"}) =>
          \A i \in DOMAIN simPieces :
             /\ simPieces[i].position = createPieces[i].position
             /\ simPieces[i].pieceType = createPieces[i].pieceType
             /\ simPieces[i].isWhite = createPieces[i].isWhite
             /\ <<simPieces[i].originalX, simPieces[i].originalY>> = createPieces[i].position
    /\ (variant = "room" /\ lastOp \in {"load", "reset"}) =>
          \A i \in DOMAIN roomPieces :
             /\ roomPieces[i].position = newPieces[i].position
             /\ roomPieces[i].key[1] = newPieces[i].id

(* the pieces of the room scene created a second time, by the second reset *)
RoomPiecesCreatedAgain ==
    /\ variant = "room"
    /\ lastOp = "reset"
    /\ resetTrigger = 2
    /\ shakeIntensity = 0
    /\ DOMAIN roomPieces # {}

----------------------------------------------------------------------------
(* Overlap of the shapes the world is built from: a piece is a circle of    *)
(* pieceRadius, a wall or a board square an axis-aligned rectangle.          *)
CirclesOverlap(c1, c2) ==
    LET dx == c1[1] - c2[1]
        dy == c1[2] - c2[2]
        reach == 2 * Px(pieceRadius)
    IN  dx * dx + dy * dy < reach * reach

CircleOverlapsBox(c, centre, half) ==
    LET nx == Max(centre[1] - half[1], Min(c[1], centre[1] + half[1]))
        ny == Max(centre[2] - half[2], Min(c[2], centre[2] + half[2]))
        dx == c[1] - nx
        dy == c[2] - ny
    IN  dx * dx + dy * dy < Px(pieceRadius) * Px(pieceRadius)

(* C13 as stated: the world that initializePhysics has just built holds no   *)
(* overlapping pair of bodies of which one is a piece: no piece overlaps     *)
(* another piece, a wall or a board square.                                  *)
InitialLayoutHasNoOverlap ==
    (variant = "sim" /\ engineRef /\ lastOp = "load") =>
        \A i \in DOMAIN simPieces :
           /\ \A j \in 1..Len(createPieces) :
                 j # i => ~CirclesOverlap(simPieces[i].position, createPieces[j].position)
           /\ \A w \in 1..4 :
                 ~CircleOverlapsBox(simPieces[i].position, simWalls[w], WallHalfExtent[w])
           /\ \A q \in 0..63 :
                 ~CircleOverlapsBox(simPieces[i].position, SquareOrigin(q), SquareHalfExtent)

----------------------------------------------------------------------------
(* C14 as stated: once the 2D component is unmounted, no step of the loop    *)
(* started by Engine.run advances a body and the renderer is not running;    *)
(* and when the unmount came before the script's onload, that onload creates *)
(* no engine, no renderer and no step loop.                                  *)
WorldTornDownOnUnmount ==
    /\ [][(variant = "sim" /\ ~mounted /\ ~mounted') =>
             /\ simPieces' = simPieces
             /\ simSquares' = simSquares
             /\ ~renderRunning']_vars
    /\ [][(variant = "sim" /\ ~mounted /\ ~matterLoaded /\ matterLoaded') =>
             /\ ~engineRef'
             /\ ~runnerRunning'
             /\ ~renderRunning']_vars

----------------------------------------------------------------------------
(* C15 as stated: shake is reproducible, a second execution of a handler     *)
(* from the same state with the same command ends with identical bodies.     *)
ShakeIsReproducible == twin = {}

(* C15, amended: two executions of a handler from the same state can end     *)
(* differently only after a shake, and only in what the Math.random() draws  *)
(* write: in the 2D sim the force of a piece and, for a multiplier above 5,  *)
(* the position of a board square; in the room scene the velocity of a piece *)
(* that received an impulse.  Besides, a frame of the room scene sets the    *)
(* board's pose from Date.now() while shakeForce is positive.                *)
ShakeDiffersOnlyByDraws ==
    /\ lastOp \notin {"shake", "frame"} => twin = {}
    /\ lastOp = "frame" => (twin \subseteq {"board"} /\ (twin # {} => shakeForce > 0))
    /\ variant = "sim" =>
          /\ twin \subseteq {"force", "square"}
          /\ "square" \in twin => shakeMult > BoardShakeThreshold
    /\ variant = "room" =>
          /\ twin \subseteq {"velocity", "board"}
          /\ "velocity" \in twin => \E i \in DOMAIN roomApplied : roomApplied[i] # << >>
          /\ "board" \in twin => lastOp = "frame"

(* a strong shake of the 2D sim whose second execution moves the observed   *)
(* board square elsewhere                                                    *)
SimShakeEndsDifferently ==
    /\ variant = "sim"
    /\ lastOp = "shake"
    /\ twin = {"square"}

----------------------------------------------------------------------------
(* C16 as stated: in the room scene the force of a shake stays applied until *)
(* that shake's own 500 ms timer fires, unless a reset comes first.  The     *)
(* timers all wait 500 ms and fire in the order they were set, so the timer  *)
(* of the latest shake is pending whenever any timer is; the intensity is    *)
(* positive exactly when no reset followed the latest shake.                 *)
ShakeForceLastsHalfSecond ==
    (variant = "room" /\ timers > 0 /\ shakeIntensity > 0) => shakeForce = shakeIntensity

----------------------------------------------------------------------------
(* C17: in the room scene a timer callback only ever sets shakeForce to 0,   *)
(* a shakeForce of 0 stays 0 until the next shake, and a positive shakeForce *)
(* eventually returns to 0.                                                  *)
ShakeForceReturnsToZero ==
    /\ [][(variant = "room" /\ lastOp' = "timer") => shakeForce' = 0]_vars
    /\ [][(variant = "room" /\ shakeForce = 0 /\ lastOp' # "shake") => shakeForce' = 0]_vars
    /\ (variant = "room" /\ shakeForce > 0) ~> (shakeForce = 0)

(* the timer of the last shake has fired *)
RoomLastTimerFired ==
    /\ variant = "room"
    /\ lastOp = "timer"
    /\ timers = 0
    /\ shakeForce = 0
    /\ shakeIntensity > 1

----------------------------------------------------------------------------
(* C18: in the room scene, from a reset until the next shake no piece        *)
(* receives an impulse: the pieces mounted by the reset see shakeForce = 0   *)
(* and are at rest, and a timer left pending by an earlier shake applies no  *)
(* impulse and raises neither shakeForce nor the intensity.                  *)
NoImpulseAfterReset ==
    /\ []((variant = "room" /\ lastOp = "reset") =>
             /\ shakeForce = 0
             /\ \A i \in DOMAIN roomPieces :
                   /\ roomApplied[i] = << >>
                   /\ roomPieces[i].velocity = <<0, 0, 0>>)
    /\ [][(variant = "room" /\ isLoaded /\ shakeIntensity = 0 /\ lastOp' # "shake") =>
             /\ shakeForce' = 0
             /\ shakeIntensity' = 0
             /\ \A i \in DOMAIN roomApplied' : roomApplied'[i] = << >>]_vars

(* a timer set by a shake before the reset has fired after the reset *)
RoomStaleTimerFiredAfterReset ==
    /\ variant = "room"
    /\ lastOp = "timer"
    /\ resetTrigger > 0
    /\ shakeIntensity = 0
    /\ DOMAIN roomPieces # {}

----------------------------------------------------------------------------
(* C19: in the room scene shakeForce is 0 or equal to the current intensity, *)
(* never greater and never negative.                                         *)
ShakeForceIsZeroOrIntensity ==
    variant = "room" =>
        /\ shakeForce \in {0, shakeIntensity}
        /\ 0 <= shakeForce
        /\ shakeForce <= shakeIntensity

(* the force is back at 0 while the intensity is at its cap *)
RoomForceZeroAtFullIntensity ==
    /\ variant = "room"
    /\ shakeForce = 0
    /\ shakeIntensity = MaxIntensity
    /\ timers > 0

----------------------------------------------------------------------------
(* C20: a shake raises the intensity by exactly 1 below 10 and leaves it at  *)
(* 10 there; a reset sets it to 0; nothing else changes it.                  *)
IntensityStepsByOne ==
    [][/\ lastOp' = "shake" =>
             shakeIntensity' = (IF shakeIntensity < MaxIntensity
                                THEN shakeIntensity + 1 ELSE MaxIntensity)
       /\ lastOp' = "reset" => shakeIntensity' = 0
       /\ lastOp' \notin {"shake", "reset"} => shakeIntensity' = shakeIntensity]_vars

(* a shake of the room scene at intensity 10 that changed nothing else *)
RoomShakeAtCap ==
    /\ variant = "room"
    /\ lastOp = "shake"
    /\ shakeIntensity = MaxIntensity
    /\ DOMAIN roomApplied # {}
    /\ \A i \in DOMAIN roomApplied : roomApplied[i] = << >>

----------------------------------------------------------------------------
(* C21: in the 2D sim a shake displaces board squares only when its          *)
(* intensity (shakeIntensity + 1 of the click, the new cumulative intensity  *)
(* below the cap) is greater than 5: a shake of intensity 1..5 leaves every  *)
(* square where it was, and no shake moves a wall.                           *)
SquaresDisplacedOnlyAboveFive ==
    [][(variant = "sim" /\ engineRef /\ lastOp' = "shake") =>
          /\ simWalls' = simWalls
          /\ shakeMult' \in 1..BoardShakeThreshold => simSquares' = simSquares
          /\ shakeIntensity' \in 1..BoardShakeThreshold => simSquares' = simSquares
          /\ simSquares' # simSquares =>
                shakeMult' > BoardShakeThreshold /\ shakeIntensity' > BoardShakeThreshold]_vars

(* the 6th shake in a row has moved the observed square off its origin,     *)
(* which the five shakes before it had not                                   *)
SimSixthShakeMovesSquare ==
    /\ variant = "sim"
    /\ lastOp = "shake"
    /\ shakes = BoardShakeThreshold + 1
    /\ shakeMult = BoardShakeThreshold + 1
    /\ \E i \in DOMAIN simSquares : simSquares[i] # SquareOrigin(i)

----------------------------------------------------------------------------
(* C22: in the 2D sim, after resetBoard every board square is at exactly the *)
(* position it was created at, whatever shakes came before: the row and col  *)
(* that reset computes from the index (floor(index / 8), index mod 8) are    *)
(* those of the row-major loops that pushed the 64 squares.                  *)
ResetInvertsCreationOrder ==
    /\ Len(boardSquares) = 64
    /\ \A row, col \in 0..7 :
          /\ boardSquares[row * 8 + col + 1] =
                <<Px(col * squareSize + squareSize \div 2),
                  Px(row * squareSize + squareSize \div 2)>>
          /\ \A moved \in {<<0, 0>>, boardSquares[col * 8 + row + 1]} :
                ResetSquare(moved, row * 8 + col) = boardSquares[row * 8 + col + 1]
    /\ \A i, j \in 1..64 : i # j => boardSquares[i] # boardSquares[j]

ResetRestoresSquares ==
    /\ ResetInvertsCreationOrder
    /\ (variant = "sim" /\ engineRef /\ lastOp = "reset") =>
          \A i \in DOMAIN simSquares : simSquares[i] = boardSquares[i + 1]

(* a reset of the observed square 11 (row 1, col 3) after shakes strong      *)
(* enough to have translated it                                              *)
SimResetAfterSquareShaken ==
    /\ variant = "sim"
    /\ lastOp = "reset"
    /\ resetsInRow = 1
    /\ 11 \in DOMAIN simSquares
    /\ shakeMult > BoardShakeThreshold

----------------------------------------------------------------------------
(* C23: in the room scene the board only ever jumps upward: its y position  *)
(* is never below safeYPosition (and x, z stay 0), and every frame that runs *)
(* while shakeForce is 0 puts the board at its rest pose, position           *)
(* (0, safeYPosition, 0) and rotation (0, 0, 0).                             *)
BoardJumpsOnlyUpward ==
    /\ [](variant = "room" =>
             /\ roomBoard.position[2] >= safeYPosition
             /\ roomBoard.position[1] = 0
             /\ roomBoard.position[3] = 0
             /\ roomBoard.rotation[2] = 0)
    /\ [][(ObservesBoard /\ lastOp' = "frame" /\ shakeForce = 0) =>
             roomBoard' = BoardRestPose]_vars

(* a frame has put the board back to rest after the shake that took the     *)
(* intensity to its cap has ended                                            *)
RoomBoardBackAtRest ==
    /\ ObservesBoard
    /\ lastOp = "frame"
    /\ shakeForce = 0
    /\ shakeIntensity = MaxIntensity
    /\ roomBoard = BoardRestPose

----------------------------------------------------------------------------
(* C24: in the 2D sim and in the room scene no shake or reset is accepted   *)
(* while the component is loading: such a step neither is a shake or a      *)
(* reset nor changes the intensity, the shake counters, the shake force,    *)
(* the reset trigger or the pending timers.  In the 2D sim the buttons are  *)
(* enabled only after onload has run; in the room scene, while loading, no  *)
(* piece is mounted, nothing has happened yet and the board is at rest.     *)
(* Once loading has completed it never reverts.                             *)
LoadingGatesCommands ==
    /\ [][(variant \in {"sim", "room"} /\ ~isLoaded) =>
            /\ lastOp' \notin {"shake", "reset"}
            /\ UNCHANGED <<shakeIntensity, shakes, shakeMult, pendingShakes, shakeForce,
                           resetTrigger, timers>>]_vars
    /\ [](variant = "sim" => (SimButtonsEnabled => matterLoaded))
    /\ [](variant = "sim" /\ ~matterLoaded => ~isLoaded /\ ~engineRef /\ simPieces = NoBodies)
    /\ [](variant = "room" /\ ~isLoaded =>
            /\ DOMAIN roomPieces = {}
            /\ roomBoard = BoardRestPose
            /\ lastOp = "init")
    /\ [][isLoaded => isLoaded']_vars

(* the first shake of the room scene, accepted after the loading timer *)
RoomFirstShakeAfterLoading ==
    /\ variant = "room"
    /\ isLoaded
    /\ lastOp = "shake"
    /\ shakeIntensity = 1
    /\ timers = 1

====
